---- MODULE Spec2Model ----
(***************************************************************************)
(* A model of apple-podcast-transcript-extractor: the TTML-to-text         *)
(* extraction engine of extractTranscript.py (format_timestamp,            *)
(* extract_text_from_spans, extract_transcript) and the batch driver of    *)
(* its main().                                                             *)
(*                                                                         *)
(* Representation.  A Python str is a sequence of one-character strings.   *)
(* A float is the integer number of thousandths it denotes (Scale); every  *)
(* float the model draws has at most three decimals, far from the places   *)
(* where binary rounding could move a floor across an integer.  The TTML   *)
(* input is the sequence of markup tokens of the document (start tag with  *)
(* its attributes and namespace declarations, end tag, character data);    *)
(* fromstring builds the ElementTree from it with a stack, as expat does.  *)
(***************************************************************************)
EXTENDS Integers, Sequences, FiniteSets, TLC

VARIABLES
    ttml_content,        \* the markup handed to extract_transcript (tokens)
    open_tags,           \* names of the elements the markup has left open
    pc,                  \* "build" | "done" | the position of a driver
    include_timestamps,  \* the flag of the last call
    result,              \* outcome of the last extract_transcript call
    files,               \* the output sink: path -> content          
    sink_log,            \* what the last call did to the sink
    node,                \* the element handed to extract_text_from_spans
    seconds,             \* the float handed to format_timestamp
    text_out,            \* the string a pure function returned
    ttml_files,          \* main(): the list find_ttml_files returned
    file_index,          \* main(): how many entries the loop has been through
    filename_counts,     \* main(): base filename -> times it was used
    skipped_count,       \* main(): files skipped because the output exists
    skip_existing,       \* main(): args.skip_existing
    assigned,            \* per entry gone through, the output paths chosen for it
    success_count,       \* a batch with counts: success_count
    fail_count,          \* a batch with counts: fail_count
    outcomes,            \* per entry gone through, what became of it
    title,               \* the string handed to sanitize_filename
    entries              \* find_ttml_files: the files under the directory

vars == <<ttml_content, open_tags, pc, include_timestamps, result, files,
          sink_log, node, seconds, text_out, ttml_files, file_index,
          filename_counts, skipped_count, skip_existing, assigned,
          success_count, fail_count, outcomes, title, entries>>

(***************************************************************************)
(* Strings                                                                 *)
(***************************************************************************)
\* str.isspace() for the characters the model draws
Whitespace == {" ", "\n", "\t"}

IsSpace(c) == c \in Whitespace

RECURSIVE Concat(_)
\* "".join(parts)
Concat(parts) ==
    IF parts = <<>> THEN <<>> ELSE Head(parts) \o Concat(Tail(parts))

RECURSIVE Join(_, _)
\* sep.join(parts)
Join(sep, parts) ==
    IF parts = <<>> THEN <<>>
    ELSE IF Len(parts) = 1 THEN parts[1]
    ELSE parts[1] \o sep \o Join(sep, Tail(parts))

RECURSIVE LStrip(_)
LStrip(s) ==
    IF s # <<>> /\ IsSpace(Head(s)) THEN LStrip(Tail(s)) ELSE s

RECURSIVE RStrip(_)
RStrip(s) ==
    IF s # <<>> /\ IsSpace(s[Len(s)]) THEN RStrip(SubSeq(s, 1, Len(s) - 1)) ELSE s

\* str.strip()
Strip(s) == RStrip(LStrip(s))

RECURSIVE SplitFrom(_, _, _)
\* str.split(): the maximal runs of non-whitespace characters, in order.
\* cur is the run being read, acc the runs already closed.
SplitFrom(s, cur, acc) ==
    IF s = <<>> THEN (IF cur = <<>> THEN acc ELSE Append(acc, cur))
    ELSE IF IsSpace(Head(s))
         THEN SplitFrom(Tail(s), <<>>, IF cur = <<>> THEN acc ELSE Append(acc, cur))
         ELSE SplitFrom(Tail(s), Append(cur, Head(s)), acc)

Split(s) == SplitFrom(s, <<>>, <<>>)

\* ' '.join(text.strip().split())
NormalizeJoinSep(words) == Join(<<" ">>, words)

NormalizeWhitespace(s) == NormalizeJoinSep(Split(Strip(s)))

(***************************************************************************)
(* format_timestamp                                                        *)
(***************************************************************************)
Scale == 1000

DigitChars == <<"0", "1", "2", "3", "4", "5", "6", "7", "8", "9">>

RECURSIVE IntToStr(_)
\* str(n) for n >= 0
IntToStr(n) ==
    IF n < 10 THEN <<DigitChars[n + 1]>>
    ELSE IntToStr(n \div 10) \o <<DigitChars[(n % 10) + 1]>>

\* f"{n:02d}" for n >= 0: padded with zeros to width 2, never cut
Format02d(n) ==
    LET d == IntToStr(n) IN IF Len(d) < 2 THEN <<"0">> \o d ELSE d

\* int(x // y) and x % y of floats x >= 0, y > 0 (y a whole number)
FloatFloorDiv(x, y) == x \div (y * Scale)

FloatMod(x, y) == x % (y * Scale)

\* a faulty variant: rounded to the nearest second, not truncated
TimestampFieldsRounded(secs) ==
    [h |-> FloatFloorDiv(secs + 500, 3600),
     m |-> FloatFloorDiv(FloatMod(secs + 500, 3600), 60),
     s |-> FloatMod(secs + 500, 60) \div Scale]

TimestampFields(secs) ==
    [h |-> FloatFloorDiv(secs, 3600),
     m |-> FloatFloorDiv(FloatMod(secs, 3600), 60),
     s |-> FloatMod(secs, 60) \div Scale]

format_timestamp(secs) ==
    LET f == TimestampFields(secs)
    IN  Format02d(f.h) \o <<":">> \o Format02d(f.m) \o <<":">> \o Format02d(f.s)

(***************************************************************************)
(* The markup and xml.etree.ElementTree                                    *)
(***************************************************************************)
TTML_NS == "http://www.w3.org/ns/ttml"

PODCASTS_NS == "http://podcasts.apple.com/transcript-ttml-internal"

WORD == <<"w", "o", "r", "d">>

SENTENCE == <<"s", "e", "n", "t", "e", "n", "c", "e">>

\* Attribute dictionaries: functions from names to strings
NoAttrs == <<>>

Attr(name, value) == name :> value

HasAttr(attrib, name) == name \in DOMAIN attrib

\* dict.get(name): None is the empty string here, and both are falsy
Get(attrib, name) == IF name \in DOMAIN attrib THEN attrib[name] ELSE <<>>

\* Tokens of the markup.  xmlns holds the prefixes the start tag declares:
\* "" for xmlns="http://www.w3.org/ns/ttml", "podcasts" for xmlns:podcasts.
StartTag(name, attrs, xmlns) ==
    [k |-> "start", name |-> name, attrs |-> attrs, xmlns |-> xmlns]

EndTag(name) == [k |-> "end", name |-> name]

CharData(s) == [k |-> "data", s |-> s]

\* An Element: tag is the expanded name ({ns}local, ns "" when unqualified)
Element(tag, attrib) ==
    [tag |-> tag, attrib |-> attrib, text |-> <<>>, tail |-> <<>>, children |-> <<>>]

NoElement == [tag |-> "none"]

ParseError == [type |-> "ParseError", msg |-> "not well-formed"]

\* The expanded name of an unprefixed element: the default namespace, if one
\* is in scope
ElementTag(name, scope) ==
    [ns |-> IF "" \in scope THEN TTML_NS ELSE "", local |-> name]

\* Attribute names as written, and as ElementTree keys them
AttrPrefix(name) == IF name = "podcasts:unit" THEN "podcasts" ELSE ""

AttrKey(name) ==
    IF name = "podcasts:unit" THEN "{" \o PODCASTS_NS \o "}unit" ELSE name

\* An unprefixed attribute is in no namespace; a prefix must be declared
PrefixesBound(attrs, scope) ==
    \A a \in DOMAIN attrs : AttrPrefix(a) = "" \/ AttrPrefix(a) \in scope

ResolveAttrs(attrs) ==
    [key \in {AttrKey(a) : a \in DOMAIN attrs} |->
        attrs[CHOOSE a \in DOMAIN attrs : AttrKey(a) = key]]

\* Character data goes to the text of the open element until it has a
\* child, then to the tail of its last child
AddData(el, s) ==
    IF el.children = <<>> THEN [el EXCEPT !.text = @ \o s]
    ELSE [el EXCEPT !.children[Len(el.children)].tail = @ \o s]

AllSpace(s) == \A i \in 1..Len(s) : IsSpace(s[i])

RECURSIVE ParseFrom(_, _, _, _)
\* The parser at token i: stack holds the open elements (el), their names as
\* written (name) and the prefixes in scope; root is the closed document
\* element, if any.
ParseFrom(toks, i, stack, root) ==
    IF i > Len(toks)
    THEN IF stack = <<>> /\ root # NoElement
         THEN [ok |-> TRUE, root |-> root]
         ELSE [ok |-> FALSE, root |-> NoElement]   \* unclosed, or no element
    ELSE
    LET t == toks[i]
        n == Len(stack)
        fail == [ok |-> FALSE, root |-> NoElement]
    IN  CASE t.k = "start" ->
               LET scope == (IF n = 0 THEN {} ELSE stack[n].scope) \cup t.xmlns
               IN  IF root # NoElement THEN fail     \* junk after document element
                   ELSE IF ~PrefixesBound(t.attrs, scope) THEN fail   \* unbound prefix
                   ELSE ParseFrom(toks, i + 1,
                          Append(stack,
                            [el |-> Element(ElementTag(t.name, scope), ResolveAttrs(t.attrs)),
                             name |-> t.name, scope |-> scope]),
                          root)
          [] t.k = "end" ->
               IF n = 0 \/ stack[n].name # t.name THEN fail    \* mismatched tag
               ELSE IF n = 1 THEN ParseFrom(toks, i + 1, <<>>, stack[1].el)
               ELSE ParseFrom(toks, i + 1,
                      [SubSeq(stack, 1, n - 1) EXCEPT
                          ![n - 1].el.children = Append(@, stack[n].el)],
                      root)
          [] OTHER ->
               IF n = 0
               THEN IF AllSpace(t.s) THEN ParseFrom(toks, i + 1, stack, root) ELSE fail
               ELSE ParseFrom(toks, i + 1, [stack EXCEPT ![n].el = AddData(@, t.s)], root)

\* ET.fromstring
fromstring(toks) == ParseFrom(toks, 1, <<>>, NoElement)

\* Element.findall(tag): the direct children with that expanded name
findall(el, ns, local) ==
    SelectSeq(el.children, LAMBDA c : c.tag = [ns |-> ns, local |-> local])

\* a faulty variant: the unqualified fallback forgotten
FindQualifiedOnly(el, local) == findall(el, TTML_NS, local)

\* findall('tt:x', ns), and findall('x') when that finds nothing
FindWithFallback(el, local) ==
    LET qualified == findall(el, TTML_NS, local)
    IN  IF qualified # <<>> THEN qualified ELSE findall(el, "", local)

(***************************************************************************)
(* extract_text_from_spans                                                 *)
(***************************************************************************)
\* str.endswith('span') of a tag, for the element names the model draws
EndsWithSpan(tag) == tag.local \in {"span"}

\* child.get('unit') or child.get('{...}unit')
UnitOf(child) ==
    IF Get(child.attrib, "unit") # <<>> THEN Get(child.attrib, "unit")
    ELSE Get(child.attrib, AttrKey("podcasts:unit"))

\* a faulty variant: the tag not looked at
IsWordUnit(child) == UnitOf(child) = WORD

IsWordSpan(child) == EndsWithSpan(child.tag) /\ UnitOf(child) = WORD

RECURSIVE extract_text_from_spans(_)
RECURSIVE ChildrenText(_, _)
\* the loop over the children from child i on
ChildrenText(element, i) ==
    IF i > Len(element.children) THEN <<>>
    ELSE LET child == element.children[i]
             child_text == extract_text_from_spans(child)
                           \o (IF IsWordSpan(child) THEN <<" ">> ELSE <<>>)
         IN  child_text \o child.tail \o ChildrenText(element, i + 1)

extract_text_from_spans(element) == element.text \o ChildrenText(element, 1)

(***************************************************************************)
(* Reading a tree and the markup, for stating the properties               *)
(***************************************************************************)
RECURSIVE Descendants(_)
RECURSIVE DescendantsFrom(_, _)
DescendantsFrom(el, i) ==
    IF i > Len(el.children) THEN <<>>
    ELSE <<el.children[i]>> \o Descendants(el.children[i]) \o DescendantsFrom(el, i + 1)

\* the elements below el, in document order
Descendants(el) == DescendantsFrom(el, 1)

\* a span whose unit attribute, unqualified or qualified, is "sentence"
IsSentenceSpan(el) ==
    /\ el.tag.local = "span"
    /\ \/ Get(el.attrib, "unit") = SENTENCE
       \/ Get(el.attrib, AttrKey("podcasts:unit")) = SENTENCE

SentenceSpans(el) == SelectSeq(Descendants(el), IsSentenceSpan)

IsParagraph(el) == el.tag.local = "p"

\* some character of the element's text, or of text below it, is not blank
HasInk(el) ==
    \/ ~AllSpace(el.text)
    \/ \E i \in 1..Len(Descendants(el)) :
          LET d == Descendants(el)[i] IN ~AllSpace(d.text) \/ ~AllSpace(d.tail)

EndsWith(s, t) ==
    Len(s) >= Len(t) /\ SubSeq(s, Len(s) - Len(t) + 1, Len(s)) = t

StartsWith(s, t) == Len(s) >= Len(t) /\ SubSeq(s, 1, Len(t)) = t

(***************************************************************************)
(* float(str)                                                              *)
(***************************************************************************)
IsDigit(c) == \E d \in 1..10 : DigitChars[d] = c

DigitValue(c) == (CHOOSE d \in 1..10 : DigitChars[d] = c) - 1

RECURSIVE DigitsValue(_)
DigitsValue(ds) ==
    IF ds = <<>> THEN 0
    ELSE DigitsValue(SubSeq(ds, 1, Len(ds) - 1)) * 10 + DigitValue(ds[Len(ds)])

AllDigits(s) == \A i \in 1..Len(s) : IsDigit(s[i])

\* where the first "." is, or Len(s) + 1
PointAt(s) ==
    IF \E i \in 1..Len(s) : s[i] = "."
    THEN CHOOSE i \in 1..Len(s) : s[i] = "." /\ \A j \in 1..(i - 1) : s[j] # "."
    ELSE Len(s) + 1

\* the thousandths a fraction's digits denote (three decimals at most)
FractionValue(ds) ==
    LET d == SubSeq(ds \o <<"0", "0", "0">>, 1, 3) IN DigitsValue(d)

\* float(s) for plain decimals: digits, optionally a point and digits.
\* Anything else the model draws raises ValueError.
ParseFloat(s) ==
    LET t == Strip(s)
        k == PointAt(t)
        whole == SubSeq(t, 1, k - 1)
        frac == SubSeq(t, k + 1, Len(t))
    IN  IF AllDigits(whole) /\ AllDigits(frac) /\ Len(whole) + Len(frac) > 0
        THEN [ok |-> TRUE, value |-> DigitsValue(whole) * Scale + FractionValue(frac)]
        ELSE [ok |-> FALSE, value |-> 0]

(***************************************************************************)
(* extract_transcript                                                      *)
(***************************************************************************)
NoError == [type |-> "none", msg |-> ""]

NoBodyError == [type |-> "ValueError", msg |-> "No body element found in TTML"]

NoDivError == [type |-> "ValueError", msg |-> "No div element found in body"]

FloatError == [type |-> "ValueError", msg |-> "could not convert string to float"]

SinkError == [type |-> "OSError", msg |-> "cannot open the output path"]

\* a faulty variant: line 98 forgotten, the text only stripped
ParagraphTextStripped(paragraph) == Strip(extract_text_from_spans(paragraph))

\* line 96-98: the text of the paragraph as one block, normalized
ParagraphText(paragraph) ==
    NormalizeWhitespace(extract_text_from_spans(paragraph))

\* a faulty variant: the flag not consulted
WantsTimestampAlways(paragraph, ts) == HasAttr(paragraph.attrib, "begin")

\* line 101: include_timestamps and 'begin' in paragraph.attrib
WantsTimestamp(paragraph, ts) == ts /\ HasAttr(paragraph.attrib, "begin")

\* line 103: f"[{timestamp}] {paragraph_text}"
TimestampedLine(secs, paragraph_text) ==
    <<"[">> \o format_timestamp(secs) \o <<"]", " ">> \o paragraph_text

RECURSIVE PlainLines(_)
PlainLines(units) ==
    IF units = <<>> THEN <<>>
    ELSE LET t == NormalizeWhitespace(extract_text_from_spans(Head(units)))
         IN  (IF t = <<>> THEN <<>> ELSE <<t>>) \o PlainLines(Tail(units))

\* a faulty variant: a line per sentence span, the paragraph only when it has none
ParagraphLinesBySentence(paragraph, ts) ==
    [exc |-> NoError,
     lines |-> PlainLines(IF SentenceSpans(paragraph) # <<>>
                          THEN SentenceSpans(paragraph) ELSE <<paragraph>>)]

\* lines 100-105 for one paragraph: the lines it appends (none or one), or
\* the exception of float()
ParagraphLines(paragraph, ts) ==
    LET paragraph_text == ParagraphText(paragraph)
    IN  IF paragraph_text = <<>> THEN [exc |-> NoError, lines |-> <<>>]
        ELSE IF WantsTimestamp(paragraph, ts)
        THEN LET f == ParseFloat(paragraph.attrib["begin"])
             IN  IF f.ok
                 THEN [exc |-> NoError,
                       lines |-> <<TimestampedLine(f.value, paragraph_text)>>]
                 ELSE [exc |-> FloatError, lines |-> <<>>]
        ELSE [exc |-> NoError, lines |-> <<paragraph_text>>]

\* a faulty variant: div[0] only
FirstDivOnly(div_elements) == <<div_elements[1]>>

\* line 88: the div elements the loop runs over
ProcessedDivs(div_elements) == div_elements

RECURSIVE ParagraphsOf(_)
\* lines 88-94: the paragraphs in the order the two loops reach them
ParagraphsOf(divs) ==
    IF divs = <<>> THEN <<>>
    ELSE FindWithFallback(Head(divs), "p") \o ParagraphsOf(Tail(divs))

RECURSIVE AssembleFrom(_, _, _)
\* the loops from paragraph i on; an exception ends them
AssembleFrom(paragraphs, i, ts) ==
    IF i > Len(paragraphs) THEN [exc |-> NoError, lines |-> <<>>]
    ELSE LET one == ParagraphLines(paragraphs[i], ts)
         IN  IF one.exc # NoError THEN one
             ELSE LET rest == AssembleFrom(paragraphs, i + 1, ts)
                  IN  IF rest.exc # NoError THEN rest
                      ELSE [exc |-> NoError, lines |-> one.lines \o rest.lines]

NoParagraphError == [type |-> "ValueError", msg |-> "No p element found in div"]

\* a faulty variant: a document without paragraphs rejected
AssembleSomeParagraph(paragraphs, ts) ==
    IF paragraphs = <<>> THEN [exc |-> NoParagraphError, lines |-> <<>>]
    ELSE AssembleFrom(paragraphs, 1, ts)

\* lines 86-105: the transcript list the loops build
Assemble(paragraphs, ts) == AssembleFrom(paragraphs, 1, ts)

\* line 108: "\n\n".join(transcript)
JoinTranscript(transcript) == Join(<<"\n", "\n">>, transcript)

\* lines 68-70 and 78-80
FindBody(root) == FindWithFallback(root, "body")

FindDivs(body) == FindWithFallback(body, "div")

\* the call left by exception e before line 108
Raised(e) == [exc |-> e, transcript |-> <<>>, output_text |-> <<>>]

\* lines 86-108, given what the loops came to
Joined(assembled) ==
    IF assembled.exc # NoError THEN Raised(assembled.exc)
    ELSE [exc |-> NoError, transcript |-> assembled.lines,
          output_text |-> JoinTranscript(assembled.lines)]

\* lines 82-108, given the div elements found
FromDivs(div_elements, ts) ==
    IF div_elements = <<>> THEN Raised(NoDivError)
    ELSE Joined(Assemble(ParagraphsOf(ProcessedDivs(div_elements)), ts))

\* lines 72-108, given the body elements found
FromBody(body_elements, ts) ==
    IF body_elements = <<>> THEN Raised(NoBodyError)
    ELSE FromDivs(FindDivs(body_elements[1]), ts)

\* lines 60-108, given what the parser returned
FromParsed(parsed, ts) ==
    IF ~parsed.ok THEN Raised(ParseError)
    ELSE FromBody(FindBody(parsed.root), ts)

\* lines 58-108: everything before the file is opened
BuildTranscript(content, ts) == FromParsed(fromstring(content), ts)

\* a faulty variant: the file opened before the transcript is built
SinkEventsOpenFirst(built, writable) ==
    IF ~writable THEN <<[op |-> "open_failed"]>>
    ELSE IF built.exc # NoError THEN <<[op |-> "open"]>>
    ELSE <<[op |-> "open"], [op |-> "write", data |-> built.output_text]>>

\* what the call does to the sink: open(output_path, 'w') and one write of
\* the whole text, only when the transcript was built
SinkEvents(built, writable) ==
    IF built.exc # NoError THEN <<>>
    ELSE IF ~writable THEN <<[op |-> "open_failed"]>>
    ELSE <<[op |-> "open"], [op |-> "write", data |-> built.output_text]>>

\* lines 55-121: the exception that leaves the call (NoError: it returns),
\* with the transcript and text built and the sink events
WriteOut(built, writable) ==
    [exc |-> IF built.exc = NoError /\ ~writable THEN SinkError ELSE built.exc,
     transcript |-> built.transcript,
     output_text |-> built.output_text,
     events |-> SinkEvents(built, writable)]

extract_transcript(content, writable, ts) ==
    WriteOut(BuildTranscript(content, ts), writable)

RECURSIVE ApplyEvents(_, _, _)
\* the file system after the sink events of a call on path
ApplyEvents(fs, path, events) ==
    IF events = <<>> THEN fs
    ELSE LET e == Head(events)
             next == CASE e.op = "open" -> [fs EXCEPT ![path] = <<>>]
                       [] e.op = "write" -> [fs EXCEPT ![path] = @ \o e.data]
                       [] OTHER -> fs
         IN  ApplyEvents(next, path, Tail(events))

(***************************************************************************)
(* The documents extract_transcript is called on                           *)
(***************************************************************************)
MaxDivs == 2

MaxParagraphs == 2

OutputPath == "out.txt"

OldContent == <<"o", "l", "d">>

Para(attrs, body) == <<StartTag("p", attrs, {})>> \o body \o <<EndTag("p")>>

Span(attrs, body) == <<StartTag("span", attrs, {})>> \o body \o <<EndTag("span")>>

Data(s) == <<CharData(s)>>

Begin(value) == Attr("begin", value)

\* whitespace only, with a begin
ParaBlank == Para(Begin(<<"2", "0">>), Data(<<" ", "\n">>))

\* plain text, no begin
ParaPlain == Para(NoAttrs, Data(<<"a">>))

\* text that needs normalizing, begin="20"
ParaBegin == Para(Begin(<<"2", "0">>), Data(<<" ", "b", " ", "\n", "c", " ">>))

\* a begin that is a clock time, not a number of seconds
ParaClockBegin == Para(Begin(<<"1", ":", "0", "5">>), Data(<<"d">>))

\* two sentence spans with begin 1.5 and 10.25, the paragraph without begin
ParaTwoSentences ==
    Para(NoAttrs,
         Span(Attr("unit", SENTENCE) @@ Begin(<<"1", ".", "5">>), Data(<<"e">>))
         \o Data(<<" ">>)
         \o Span(Attr("podcasts:unit", SENTENCE) @@ Begin(<<"1", "0", ".", "2", "5">>),
                 Data(<<"f">>)))

\* a sentence span of word spans two levels down, with text around it, in
\* a paragraph with begin="3661.9"
ParaNestedWords ==
    Para(Begin(<<"3", "6", "6", "1", ".", "9">>),
         Data(<<"i">>)
         \o Span(NoAttrs,
                 Span(Attr("unit", SENTENCE),
                      Span(Attr("podcasts:unit", WORD), Data(<<"g">>))
                      \o Span(Attr("unit", WORD), Data(<<"h">>))))
         \o Data(<<"k">>))

ParagraphChoices ==
    {ParaBlank, ParaPlain, ParaBegin, ParaClockBegin, ParaTwoSentences,
     ParaNestedWords}

\* The structure of a TTML transcript: tt > body > div > p
ChildNames(parent) ==
    CASE parent = "tt" -> {"body"}
      [] parent = "body" -> {"div"}
      [] OTHER -> {}

CountStart(toks, name) ==
    Cardinality({i \in 1..Len(toks) : toks[i].k = "start" /\ toks[i].name = name})

MaxCount(name) == IF name = "div" THEN MaxDivs ELSE 1

Top(stack) == stack[Len(stack)]

Pop(stack) == SubSeq(stack, 1, Len(stack) - 1)

Idle ==
    [exc |-> NoError, transcript |-> <<>>, output_text |-> <<>>, events |-> <<>>]

\* no batch with counts running
NoCounts ==
    /\ success_count = 0
    /\ fail_count = 0
    /\ outcomes = <<>>

\* main() not running
NoBatch ==
    /\ ttml_files = <<>>
    /\ file_index = 0
    /\ filename_counts = <<>>
    /\ skipped_count = 0
    /\ skip_existing = FALSE
    /\ assigned = <<>>
    /\ NoCounts
    /\ title = <<>>
    /\ entries = <<>>

\* the root declares xmlns:podcasts, and xmlns (the TTML namespace) or not
RootDeclarations == {{"podcasts"}, {"", "podcasts"}}

DocInit ==
    /\ \E xmlns \in RootDeclarations :
          ttml_content = <<StartTag("tt", NoAttrs, xmlns)>>
    /\ open_tags = <<"tt">>
    /\ pc = "build"
    /\ include_timestamps = FALSE
    /\ result = Idle
    /\ files = [path \in {OutputPath} |-> OldContent]
    /\ sink_log = <<>>
    /\ node = NoElement
    /\ seconds = 0
    /\ text_out = <<>>
    /\ NoBatch

Unused ==
    UNCHANGED <<node, seconds, text_out, ttml_files, file_index,
                filename_counts, skipped_count, skip_existing, assigned,
                success_count, fail_count, outcomes, title, entries>>

\* the author writes the start tag of a body or a div
OpenElement ==
    /\ pc = "build" /\ open_tags # <<>>
    /\ \E name \in ChildNames(Top(open_tags)) :
          /\ CountStart(ttml_content, name) < MaxCount(name)
          /\ ttml_content' = Append(ttml_content, StartTag(name, NoAttrs, {}))
          /\ open_tags' = Append(open_tags, name)
    /\ UNCHANGED <<pc, include_timestamps, result, files, sink_log>>
    /\ Unused

\* the author writes a whole paragraph into the open div
AddParagraph ==
    /\ pc = "build" /\ open_tags # <<>> /\ Top(open_tags) = "div"
    /\ CountStart(ttml_content, "p") < MaxParagraphs
    /\ \E para \in ParagraphChoices : ttml_content' = ttml_content \o para
    /\ UNCHANGED <<open_tags, pc, include_timestamps, result, files, sink_log>>
    /\ Unused

\* the author writes the end tag of the open element
CloseElement ==
    /\ pc = "build" /\ open_tags # <<>>
    /\ ttml_content' = Append(ttml_content, EndTag(Top(open_tags)))
    /\ open_tags' = Pop(open_tags)
    /\ UNCHANGED <<pc, include_timestamps, result, files, sink_log>>
    /\ Unused

\* the author closes the root while the body is still open (misnested
\* markup); nothing can follow
MisnestedClose ==
    /\ pc = "build" /\ Len(open_tags) = 2
    /\ ttml_content' = Append(ttml_content, EndTag(Top(Pop(open_tags))))
    /\ open_tags' = <<>>
    /\ UNCHANGED <<pc, include_timestamps, result, files, sink_log>>
    /\ Unused

\* extract_transcript(ttml_content, OutputPath, ts), the whole call, on the
\* markup as it stands: complete, misnested, or cut before the last end tag
CallExtract ==
    /\ pc = "build" /\ Len(open_tags) <= 1
    /\ \E ts \in BOOLEAN :
          LET r == extract_transcript(ttml_content, TRUE, ts)
          IN  /\ include_timestamps' = ts
              /\ result' = r
              /\ sink_log' = r.events
              /\ files' = ApplyEvents(files, OutputPath, r.events)
    /\ pc' = "done"
    /\ UNCHANGED <<ttml_content, open_tags>>
    /\ Unused

Next == OpenElement \/ AddParagraph \/ CloseElement \/ MisnestedClose \/ CallExtract

Spec == DocInit /\ [][Next]_vars

(***************************************************************************)
(* Properties of extract_transcript (specification Spec)                   *)
(***************************************************************************)
Parsed == fromstring(ttml_content)

\* the paragraphs of the document, in document order
DocParagraphs ==
    IF Parsed.ok THEN SelectSeq(Descendants(Parsed.root), IsParagraph) ELSE <<>>

\* those with some text that is not blank
InkParagraphs == SelectSeq(DocParagraphs, HasInk)

HasSentenceSpans(el) == SentenceSpans(el) # <<>>

SomeSentenceSpan == \E i \in 1..Len(DocParagraphs) : HasSentenceSpans(DocParagraphs[i])

Returned == pc = "done" /\ result.exc = NoError

Contains(toks, part) ==
    \E i \in 0..(Len(toks) - Len(part)) : SubSeq(toks, i + 1, i + Len(part)) = part

\* The Units of the specification: the sentence spans of a paragraph that has
\* some, else the paragraph
UnitsOf(paragraph) ==
    IF HasSentenceSpans(paragraph) THEN SentenceSpans(paragraph) ELSE <<paragraph>>

RECURSIVE UnitsOfAll(_)
UnitsOfAll(paragraphs) ==
    IF paragraphs = <<>> THEN <<>>
    ELSE UnitsOf(Head(paragraphs)) \o UnitsOfAll(Tail(paragraphs))

DocUnits == SelectSeq(UnitsOfAll(DocParagraphs), HasInk)

UnitText(u) == NormalizeWhitespace(extract_text_from_spans(u))

\* the timestamps of the begin values the documents carry, written out
StampOf(begin) ==
    CASE begin = <<"2", "0">> -> <<"0", "0", ":", "0", "0", ":", "2", "0">>
      [] begin = <<"1", ".", "5">> -> <<"0", "0", ":", "0", "0", ":", "0", "1">>
      [] begin = <<"1", "0", ".", "2", "5">> -> <<"0", "0", ":", "0", "0", ":", "1", "0">>
      [] begin = <<"3", "6", "6", "1", ".", "9">> -> <<"0", "1", ":", "0", "1", ":", "0", "1">>
      [] OTHER -> <<"?">>

PrefixOf(u, ts) ==
    IF ts /\ HasAttr(u.attrib, "begin")
    THEN <<"[">> \o StampOf(u.attrib["begin"]) \o <<"]", " ">>
    ELSE <<>>

C3_LinePerParagraphAllDivs ==
    (Returned /\ ~SomeSentenceSpan) =>
        LET ink == InkParagraphs
        IN  /\ Len(result.transcript) = Len(ink)
            /\ \A i \in 1..Len(ink) :
                  EndsWith(result.transcript[i], UnitText(ink[i]))

\* two divs, a paragraph with text in each, two lines in their order
C3_Witness ==
    /\ Returned /\ ~SomeSentenceSpan
    /\ CountStart(ttml_content, "div") = 2
    /\ ttml_content[4].k = "start" /\ ttml_content[4].name = "p"
    /\ Top(ttml_content) = EndTag("tt")
    /\ ttml_content[Len(ttml_content) - 3] = EndTag("p")
    /\ Len(InkParagraphs) = 2
    /\ Len(result.transcript) = 2
    /\ result.transcript[1] # result.transcript[2]

\* the same markup with the TTML namespace declared as the default (all its
\* tags qualified) when it is not, and undeclared when it is
FlipDefaultNamespace(toks) ==
    [toks EXCEPT ![1].xmlns = IF "" \in @ THEN @ \ {""} ELSE @ \cup {""}]

\* C4: the unqualified document and the same document with the TTML
\* namespace declared give the same outcome and the same transcript text,
\* with and without timestamps.
C4_NamespaceFallback ==
    pc = "done" =>
        LET other == extract_transcript(FlipDefaultNamespace(ttml_content), TRUE,
                                        include_timestamps)
        IN  /\ other.exc = result.exc
            /\ other.transcript = result.transcript
            /\ other.output_text = result.output_text

\* an unqualified document has given a transcript
C4_Witness ==
    /\ Returned
    /\ "" \notin ttml_content[1].xmlns
    /\ Len(result.transcript) = 2
    /\ include_timestamps

CountKind(toks, kind) == Cardinality({i \in 1..Len(toks) : toks[i].k = kind})

\* The markup is well-formed: every start tag has its end tag (the author
\* finished, and never closed a parent over an open child) and every prefix
\* used is declared on the root
WellFormed ==
    /\ open_tags = <<>>
    /\ CountKind(ttml_content, "start") = CountKind(ttml_content, "end")
    /\ \A i \in 1..Len(ttml_content) :
          ttml_content[i].k = "start" =>
              \A a \in DOMAIN ttml_content[i].attrs :
                  AttrPrefix(a) = "" \/ AttrPrefix(a) \in ttml_content[1].xmlns

Opens == SelectSeq(sink_log, LAMBDA e : e.op = "open")

Writes == SelectSeq(sink_log, LAMBDA e : e.op = "write")

StructureErrorTypes == {"ValueError"}

HasDivButNoParagraph ==
    /\ WellFormed
    /\ CountStart(ttml_content, "body") > 0
    /\ CountStart(ttml_content, "div") > 0
    /\ CountStart(ttml_content, "p") = 0

\* C6 as stated: a well-formed document with body and div but no paragraph
\* is rejected with the StructureError and nothing is written.
C6_NoParagraphRejected ==
    (pc = "done" /\ HasDivButNoParagraph) =>
        /\ result.exc.type \in StructureErrorTypes
        /\ files[OutputPath] = OldContent

\* C6 amended: such a document is accepted: the call returns, its transcript
\* is empty, and the output file is opened and written with the empty text.
C6_NoParagraphAccepted ==
    (pc = "done" /\ HasDivButNoParagraph) =>
        /\ result.exc = NoError
        /\ result.transcript = <<>>
        /\ sink_log = <<[op |-> "open"], [op |-> "write", data |-> <<>>]>>
        /\ files[OutputPath] = <<>>

\* a call on a document of two empty divs has returned
C6_Witness ==
    /\ pc = "done" /\ HasDivButNoParagraph
    /\ CountStart(ttml_content, "div") = 2
    /\ result.exc = NoError
    /\ files[OutputPath] # OldContent

\* the lines the specification's Units would give
ClaimedTranscript(ts) ==
    LET units == DocUnits
    IN  [i \in 1..Len(units) |-> PrefixOf(units[i], ts) \o UnitText(units[i])]

EndToEnd(toks) ==
    Contains(toks, <<StartTag("div", NoAttrs, {})>> \o ParaTwoSentences \o ParaBegin
                   \o <<EndTag("div")>>)

MaxStringLen == 3

RECURSIVE StringsOfLen(_)
\* the strings of length n over a letter, the space and the line break
StringsOfLen(n) ==
    IF n = 0 THEN {<<>>}
    ELSE {Append(t, c) : t \in StringsOfLen(n - 1), c \in {"a", " ", "\n"}}

ShortStrings == UNION {StringsOfLen(n) : n \in 0..MaxStringLen}

\* no blank at either end, and every blank a single space between two
\* characters that are not blank
CleanSpacing(line) ==
    \A i \in 1..Len(line) :
        IsSpace(line[i]) =>
            /\ line[i] = " "
            /\ 1 < i /\ i < Len(line)
            /\ ~IsSpace(line[i + 1])

Idempotent(t) == NormalizeWhitespace(NormalizeWhitespace(t)) = NormalizeWhitespace(t)

\* C9: every line of the transcript is non-empty and whitespace-normalized
\* (normalizing it again changes nothing; no blank at the ends, single
\* spaces only); a paragraph whose text is blank gives no line, with or
\* without timestamps; normalization is idempotent, on the text of every
\* paragraph, on the output text and on every short string.
C9_LinesNormalized ==
    Returned =>
        /\ \A i \in 1..Len(result.transcript) :
              LET line == result.transcript[i]
              IN  /\ line # <<>>
                  /\ NormalizeWhitespace(line) = line
                  /\ CleanSpacing(line)
        /\ LET paragraphs == DocParagraphs
           IN  /\ Len(result.transcript) = Len(SelectSeq(paragraphs, HasInk))
               /\ \A i \in 1..Len(paragraphs) :
                     LET text == extract_text_from_spans(paragraphs[i])
                     IN  Idempotent(text) /\ CleanSpacing(NormalizeWhitespace(text))
        /\ Idempotent(result.output_text)
        \* the short strings are the same in every state: they are gone
        \* through where the transcript is empty
        /\ result.transcript = <<>> =>
              \A t \in ShortStrings :
                  Idempotent(t) /\ CleanSpacing(NormalizeWhitespace(t))

\* with timestamps, a blank paragraph with a begin gave no line and a
\* paragraph with blanks to collapse gave one
C9_Witness ==
    /\ Returned /\ include_timestamps
    /\ Contains(ttml_content, ParaBlank \o ParaBegin)
    /\ Len(DocParagraphs) = 2
    /\ Len(result.transcript) = 1

(***************************************************************************)
(* format_timestamp on its own (specification SpecTime)                    *)
(***************************************************************************)
MaxHours == 100

\* the fractions of a second the model draws, in thousandths
Fractions == {0, 250, 500, 900, 999}

\* minutes and seconds at the ends of their range
SexagesimalChoices == {0, 1, 59}

SecondsChoices ==
    {((h * 3600) + (m * 60) + s) * Scale + f :
        h \in 0..MaxHours, m \in SexagesimalChoices, s \in SexagesimalChoices,
        f \in Fractions}

TimeInit ==
    /\ seconds \in SecondsChoices
    /\ pc = "time"
    /\ text_out = <<>>
    /\ ttml_content = <<>>
    /\ open_tags = <<>>
    /\ include_timestamps = FALSE
    /\ result = Idle
    /\ files = <<>>
    /\ sink_log = <<>>
    /\ node = NoElement
    /\ NoBatch

\* format_timestamp(seconds)
CallFormatTimestamp ==
    /\ pc = "time"
    /\ text_out' = format_timestamp(seconds)
    /\ pc' = "formatted"
    /\ UNCHANGED <<ttml_content, open_tags, include_timestamps, result, files,
                   sink_log, node, seconds, ttml_files, file_index,
                   filename_counts, skipped_count, skip_existing, assigned,
                   success_count, fail_count, outcomes, title, entries>>

NextTime == CallFormatTimestamp

SpecTime == TimeInit /\ [][NextTime]_vars

\* the whole seconds of a float, truncated
WholeSeconds == seconds \div Scale

\* the hours field of HH:MM:SS is everything before the last six characters
HoursField(t) == SubSeq(t, 1, Len(t) - 6)

MinutesField(t) == SubSeq(t, Len(t) - 4, Len(t) - 3)

SecondsField(t) == SubSeq(t, Len(t) - 1, Len(t))

\* C8: format_timestamp gives HH:MM:SS, digits and two colons, where the
\* fields add up to the seconds truncated to a whole number, minutes and
\* seconds are two digits in 0..59, the hours are two digits up to 99 and
\* as many as the number needs beyond; 0.0 gives 00:00:00, 3661.9 gives
\* 01:01:01 and 7200.0 gives 02:00:00.
C8_TimestampTruncated ==
    pc = "formatted" =>
        LET t == text_out
            hh == HoursField(t)
            mm == MinutesField(t)
            ss == SecondsField(t)
        IN  /\ Len(t) >= 8
            /\ t[Len(t) - 5] = ":" /\ t[Len(t) - 2] = ":"
            /\ AllDigits(hh) /\ AllDigits(mm) /\ AllDigits(ss)
            /\ DigitsValue(hh) = WholeSeconds \div 3600
            /\ DigitsValue(mm) = (WholeSeconds % 3600) \div 60
            /\ DigitsValue(ss) = WholeSeconds % 60
            /\ DigitsValue(mm) <= 59 /\ DigitsValue(ss) <= 59
            /\ (DigitsValue(hh) * 3600) + (DigitsValue(mm) * 60) + DigitsValue(ss)
                   = WholeSeconds
            /\ Len(hh) > 2 <=> DigitsValue(hh) > 99
            /\ Len(hh) > 2 => hh[1] # "0"
            /\ seconds = 0 => t = <<"0", "0", ":", "0", "0", ":", "0", "0">>
            /\ seconds = 3661900 => t = <<"0", "1", ":", "0", "1", ":", "0", "1">>
            /\ seconds = 7200000 => t = <<"0", "2", ":", "0", "0", ":", "0", "0">>

\* 100 hours 59 minutes 59.999 seconds was formatted, with a third digit
\* for the hours and the fraction dropped
C8_Witness ==
    /\ pc = "formatted"
    /\ seconds = 363599999
    /\ text_out = <<"1", "0", "0", ":", "5", "9", ":", "5", "9">>

(***************************************************************************)
(* extract_text_from_spans on its own (specification SpecText)             *)
(***************************************************************************)
MaxTokens == 5

\* character data gets a fresh letter each time, so that order shows
Letters == <<"a", "b", "c", "d", "e", "f", "g", "h">>

\* The children the author may open in a paragraph: spans that are word
\* units one way or the other, a span whose unqualified unit says sentence
\* and whose qualified unit says word, a span without unit, and an element
\* that is no span but says unit="word"
ChildChoices ==
    {[name |-> "span", attrs |-> Attr("unit", WORD)],
     [name |-> "span", attrs |-> Attr("podcasts:unit", WORD)],
     [name |-> "span", attrs |-> Attr("unit", SENTENCE) @@ Attr("podcasts:unit", WORD)],
     [name |-> "span", attrs |-> NoAttrs],
     [name |-> "br", attrs |-> Attr("unit", WORD)]}

\* the tokens written inside the root so far
Inner(toks) == SubSeq(toks, 2, Len(toks))

CountLetters(toks) ==
    Cardinality({i \in 1..Len(toks) : toks[i].k = "data" /\ toks[i].s # <<" ">>})

TextInit ==
    /\ \E xmlns \in RootDeclarations :
          ttml_content = <<StartTag("p", NoAttrs, xmlns)>>
    /\ open_tags = <<"p">>
    /\ pc = "text"
    /\ node = NoElement
    /\ text_out = <<>>
    /\ include_timestamps = FALSE
    /\ result = Idle
    /\ files = <<>>
    /\ sink_log = <<>>
    /\ seconds = 0
    /\ NoBatch

TextUnused ==
    UNCHANGED <<include_timestamps, result, files, sink_log, seconds,
                ttml_files, file_index, filename_counts, skipped_count,
                skip_existing, assigned,
                success_count, fail_count, outcomes, title, entries>>

\* the author opens a child of the open element
OpenChild ==
    /\ pc = "text" /\ Len(Inner(ttml_content)) < MaxTokens
    /\ \E c \in ChildChoices :
          /\ ttml_content' = Append(ttml_content, StartTag(c.name, c.attrs, {}))
          /\ open_tags' = Append(open_tags, c.name)
    /\ UNCHANGED <<pc, node, text_out>>
    /\ TextUnused

\* the author closes the open child
CloseChild ==
    /\ pc = "text" /\ Len(open_tags) > 1 /\ Len(Inner(ttml_content)) < MaxTokens
    /\ ttml_content' = Append(ttml_content, EndTag(Top(open_tags)))
    /\ open_tags' = Pop(open_tags)
    /\ UNCHANGED <<pc, node, text_out>>
    /\ TextUnused

\* the author writes character data: the next letter, or a space
AddCharData ==
    /\ pc = "text" /\ Len(Inner(ttml_content)) < MaxTokens
    /\ \E s \in {<<Letters[CountLetters(ttml_content) + 1]>>, <<" ">>} :
          ttml_content' = Append(ttml_content, CharData(s))
    /\ UNCHANGED <<open_tags, pc, node, text_out>>
    /\ TextUnused

\* the paragraph is closed and parsed, and extract_text_from_spans is
\* called on its element
CallExtractText ==
    /\ pc = "text" /\ open_tags = <<"p">>
    /\ LET doc == Append(ttml_content, EndTag("p"))
           element == fromstring(doc).root
       IN  /\ ttml_content' = doc
           /\ node' = element
           /\ text_out' = extract_text_from_spans(element)
    /\ open_tags' = <<>>
    /\ pc' = "extracted"
    /\ TextUnused

NextText == OpenChild \/ CloseChild \/ AddCharData \/ CallExtractText

SpecText == TextInit /\ [][NextText]_vars

\* Reading the markup itself: a start tag opens a word-unit span when it is
\* a span and its unit (the unqualified one unless empty or absent, else
\* the podcasts one) is "word"
OpensWordSpan(t) ==
    /\ t.name = "span"
    /\ (IF Get(t.attrs, "unit") # <<>> THEN Get(t.attrs, "unit")
        ELSE Get(t.attrs, "podcasts:unit")) = WORD

RECURSIVE MarkupText(_, _, _, _)
\* the character data of the tokens from i on, in order, with sep after
\* the end tag of every word-unit span; opened tells, for each open
\* element, whether it is one
MarkupText(toks, i, opened, sep) ==
    IF i > Len(toks) THEN <<>>
    ELSE LET t == toks[i]
         IN  CASE t.k = "start" ->
                    MarkupText(toks, i + 1, Append(opened, OpensWordSpan(t)), sep)
               [] t.k = "end" ->
                    (IF Top(opened) THEN sep ELSE <<>>)
                    \o MarkupText(toks, i + 1, Pop(opened), sep)
               [] OTHER -> t.s \o MarkupText(toks, i + 1, opened, sep)

\* the content of the document element: its tokens without the outer tags
Content(toks) == SubSeq(toks, 2, Len(toks) - 1)

WordSpansIn(el) ==
    Cardinality({i \in 1..Len(Descendants(el)) : IsWordSpan(Descendants(el)[i])})

RECURSIVE Segments(_)
RECURSIVE ChildSegments(_, _)
\* the text and tail segments of the subtree, in document order, the
\* tail of el itself left out
ChildSegments(el, i) ==
    IF i > Len(el.children) THEN <<>>
    ELSE Segments(el.children[i]) \o el.children[i].tail \o ChildSegments(el, i + 1)

Segments(el) == el.text \o ChildSegments(el, 1)

RECURSIVE WithoutAt(_, _)
\* s without the characters at the positions in ps
WithoutAt(s, ps) ==
    IF s = <<>> THEN <<>>
    ELSE WithoutAt(SubSeq(s, 1, Len(s) - 1), ps)
         \o (IF Len(s) \in ps THEN <<>> ELSE <<s[Len(s)]>>)

\* C2: the text extract_text_from_spans returns is the character data of
\* the subtree in document order with one space after each word-unit span
\* and after nothing else: it is what the markup reads, deleting as many
\* spaces as there are word-unit spans leaves the text and tail segments
\* concatenated, and its length is theirs plus the number of word-unit spans.
C2_TextOfSpans ==
    pc = "extracted" =>
        /\ text_out = MarkupText(Content(ttml_content), 1, <<>>, <<" ">>)
        /\ Segments(node) = MarkupText(Content(ttml_content), 1, <<>>, <<>>)
        /\ Len(text_out) = Len(Segments(node)) + WordSpansIn(node)
        /\ \E ps \in SUBSET (1..Len(text_out)) :
              /\ Cardinality(ps) = WordSpansIn(node)
              /\ \A q \in ps : text_out[q] = " "
              /\ WithoutAt(text_out, ps) = Segments(node)
        /\ WordSpansIn(node) = 0 => text_out = Segments(node)

\* a word span with a tail and an element that says unit="word" but is no
\* span were extracted: one space inserted
C2_Witness ==
    /\ pc = "extracted"
    /\ Len(node.children) = 2
    /\ IsWordSpan(node.children[1]) /\ node.children[1].tail # <<>>
    /\ node.children[2].tag.local = "br"
    /\ WordSpansIn(node) = 1
    /\ Len(text_out) = Len(Segments(node)) + 1

(***************************************************************************)
(* sanitize_filename                                                       *)
(***************************************************************************)
MaxFilenameLength == 200

\* the characters of [<>:"/\\|?*]
InvalidChars == {"<", ">", ":", "\"", "/", "\\", "|", "?", "*"}

\* re.sub(r'[<>:"/\\|?*]', '-', filename)
ReplaceInvalid(filename) ==
    [i \in 1..Len(filename) |->
        IF filename[i] \in InvalidChars THEN "-" ELSE filename[i]]

\* re.sub(r'\s+', ' ', filename): every run of whitespace becomes one space;
\* of each run the first character stays, as a space
CollapseWhitespace(filename) ==
    LET marked == [i \in 1..Len(filename) |->
                     [c |-> IF IsSpace(filename[i]) THEN " " ELSE filename[i],
                      first |-> \/ ~IsSpace(filename[i])
                                \/ i = 1
                                \/ ~IsSpace(filename[i - 1])]]
        First(m) == m.first
        kept == SelectSeq(marked, First)
    IN  [i \in 1..Len(kept) |-> kept[i].c]

\* filename[:200]
Truncate(filename) ==
    IF Len(filename) > MaxFilenameLength
    THEN SubSeq(filename, 1, MaxFilenameLength) ELSE filename

sanitize_filename(filename) ==
    Truncate(Strip(CollapseWhitespace(ReplaceInvalid(filename))))

(***************************************************************************)
(* The default batch mode of main() (specification SpecBatch)              *)
(***************************************************************************)
MaxFiles == 3

NoMetadata == [none |-> TRUE]

Metadata(podcast_title, episode_title) ==
    [podcast_title |-> podcast_title, episode_title |-> episode_title]

\* a transcript of one paragraph
OneParagraph(letter) ==
    <<StartTag("tt", NoAttrs, {"", "podcasts"}), StartTag("body", NoAttrs, {}),
      StartTag("div", NoAttrs, {})>>
    \o Para(NoAttrs, Data(<<letter>>))
    \o <<EndTag("div"), EndTag("body"), EndTag("tt")>>

\* a transcript cut in the middle
Truncated(letter) == SubSeq(OneParagraph(letter), 1, 5)

\* The entries find_ttml_files can return, with the file behind each
\* (lines 149-153): two episodes with the same titles, one whose title is
\* that of the first with " (1)" added, two without usable metadata in one
\* directory, one of them malformed, one in a directory named like the
\* first with "-1" added, and one whose title gives a name the file
\* system refuses.
FileInfo(path, id) == [path |-> path, transcript_identifier |-> path, id |-> id]

TTMLCache ==
    {FileInfo("PodcastContent7/a.ttml", <<"7">>),
     FileInfo("PodcastContent7/b.ttml", <<"7">>),
     FileInfo("PodcastContent7/c.ttml", <<"7">>),
     FileInfo("PodcastContent8/d.ttml", <<"8">>),
     FileInfo("PodcastContent8/e.ttml", <<"8">>),
     FileInfo("PodcastContent8-1/f.ttml", <<"8", "-", "1">>),
     FileInfo("PodcastContent8/g.ttml", <<"8">>)}

\* open(file_info['path']).read()
ReadFile(path) ==
    CASE path = "PodcastContent7/a.ttml" -> OneParagraph("a")
      [] path = "PodcastContent7/b.ttml" -> OneParagraph("b")
      [] path = "PodcastContent7/c.ttml" -> OneParagraph("c")
      [] path = "PodcastContent8/d.ttml" -> OneParagraph("d")
      [] path = "PodcastContent8/e.ttml" -> Truncated("e")
      [] path = "PodcastContent8-1/f.ttml" -> OneParagraph("f")
      [] OTHER -> OneParagraph("g")

\* query_episode_metadata on the library database: the row of the episode
\* with that transcript identifier, None when there is none
query_episode_metadata(transcript_identifier) ==
    CASE transcript_identifier = "PodcastContent7/a.ttml" -> Metadata(<<"P">>, <<"E">>)
      [] transcript_identifier = "PodcastContent7/b.ttml" -> Metadata(<<"P">>, <<"E">>)
      [] transcript_identifier = "PodcastContent7/c.ttml" ->
             Metadata(<<"P">>, <<"E", " ", "(", "1", ")">>)
      [] transcript_identifier = "PodcastContent8/e.ttml" -> Metadata(<<"P">>, <<>>)
      [] transcript_identifier = "PodcastContent8/g.ttml" -> Metadata(<<"P">>, <<"U", "/">>)
      [] OTHER -> NoMetadata

TxtExtension == <<".", "t", "x", "t">>

\* the output names the file system refuses to open for writing
UnwritableNames ==
    {<<"P", " ", "-", " ", "U", "-">> \o TxtExtension, <<"u">> \o TxtExtension}

Writable(filename) == filename \notin UnwritableNames

\* os.path.exists(output_path)
PathExists(fs, filename) == filename \in DOMAIN fs

\* filename_counts.get(base_filename, 0)
CountOf(counts, base_filename) ==
    IF base_filename \in DOMAIN counts THEN counts[base_filename] ELSE 0

\* line 324
HasTitles(metadata) ==
    /\ metadata # NoMetadata
    /\ metadata.podcast_title # <<>>
    /\ metadata.episode_title # <<>>

\* lines 326-331: the name from the titles
TitleFilename(metadata, counts) ==
    LET base_filename ==
            sanitize_filename(metadata.podcast_title \o <<" ", "-", " ">>
                              \o metadata.episode_title)
        count == CountOf(counts, base_filename)
        suffix == IF count = 0 THEN <<>>
                  ELSE <<" ", "(">> \o IntToStr(count) \o <<")">>
    IN  [filename |-> base_filename \o suffix \o TxtExtension,
         counts |-> (base_filename :> (count + 1)) @@ counts]

\* lines 338-342 and 365-369: the name from the identifier
IdFilename(file_info, counts) ==
    LET base_filename == file_info.id
        count == CountOf(counts, base_filename)
        suffix == IF count = 0 THEN <<>> ELSE <<"-">> \o IntToStr(count)
    IN  [filename |-> base_filename \o suffix \o TxtExtension,
         counts |-> (base_filename :> (count + 1)) @@ counts]

\* lines 324-342
ChooseFilename(file_info, metadata, counts) ==
    IF HasTitles(metadata) THEN TitleFilename(metadata, counts)
    ELSE IdFilename(file_info, counts)

\* the output directory after a call of extract_transcript on filename
SinkAfter(fs, filename, events) ==
    IF events = <<>> \/ events[1].op # "open" THEN fs
    ELSE ApplyEvents((filename :> <<>>) @@ fs, filename, events)

\* what the output directory holds before the run
OutputDirChoices ==
    {<<>>, (<<"P", " ", "-", " ", "E">> \o TxtExtension) :> OldContent,
     (<<"8">> \o TxtExtension) :> OldContent}

\* --skip-existing is store_true with default=True: it is always set
BatchInit ==
    /\ pc = "find"
    /\ ttml_files = <<>>
    /\ file_index = 0
    /\ filename_counts = <<>>
    /\ skipped_count = 0
    /\ skip_existing = TRUE
    /\ assigned = <<>>
    /\ NoCounts
    /\ title = <<>>
    /\ entries = <<>>
    /\ include_timestamps \in BOOLEAN
    /\ files \in OutputDirChoices
    /\ result = Idle
    /\ sink_log = <<>>
    /\ ttml_content = <<>>
    /\ open_tags = <<>>
    /\ node = NoElement
    /\ seconds = 0
    /\ text_out = <<>>

BatchUnused ==
    UNCHANGED <<ttml_content, open_tags, include_timestamps, node, seconds,
                text_out, skip_existing, success_count, fail_count, outcomes,
                title, entries>>

\* find_ttml_files comes upon one more file of the cache, in the order
\* os.listdir gives
FindFile ==
    /\ pc = "find" /\ Len(ttml_files) < MaxFiles
    /\ \E file_info \in TTMLCache :
          /\ \A i \in 1..Len(ttml_files) : ttml_files[i] # file_info
          /\ ttml_files' = Append(ttml_files, file_info)
    /\ UNCHANGED <<pc, file_index, filename_counts, skipped_count, assigned,
                   result, files, sink_log>>
    /\ BatchUnused

\* lines 299-315: the list is complete, the counters are set up
StartBatch ==
    /\ pc = "find"
    /\ pc' = "batch"
    /\ filename_counts' = <<>>
    /\ skipped_count' = 0
    /\ UNCHANGED <<ttml_files, file_index, assigned, result, files, sink_log>>
    /\ BatchUnused

\* lines 316-376: what one turn of the loop, with its except branch, does
\* for file_info: the new filename_counts and skipped_count, the output
\* paths it chose, the outcome of the last extract_transcript call (last,
\* when it makes none), the sink events and the output directory
ProcessOne(file_info, counts, skipped, fs, ts, skip, last) ==
    LET metadata == query_episode_metadata(file_info.transcript_identifier)
        chosen == ChooseFilename(file_info, metadata, counts)
        data == ReadFile(file_info.path)
        r == extract_transcript(data, Writable(chosen.filename), ts)
        fallback == IdFilename(file_info, chosen.counts)
        again == extract_transcript(data, Writable(fallback.filename), ts)
    IN  IF skip /\ PathExists(fs, chosen.filename)
        THEN [filename_counts |-> chosen.counts, skipped_count |-> skipped + 1,
              paths |-> <<chosen.filename>>, result |-> last, events |-> <<>>,
              files |-> fs]
        ELSE IF r.exc = NoError
        THEN [filename_counts |-> chosen.counts, skipped_count |-> skipped,
              paths |-> <<chosen.filename>>, result |-> r, events |-> r.events,
              files |-> SinkAfter(fs, chosen.filename, r.events)]
        ELSE [filename_counts |-> fallback.counts, skipped_count |-> skipped,
              paths |-> <<chosen.filename, fallback.filename>>, result |-> again,
              events |-> r.events \o again.events,
              files |-> SinkAfter(SinkAfter(fs, chosen.filename, r.events),
                                  fallback.filename, again.events)]

\* one turn of the loop of line 316
ProcessFile ==
    /\ pc = "batch" /\ file_index < Len(ttml_files)
    /\ LET done == ProcessOne(ttml_files[file_index + 1], filename_counts,
                              skipped_count, files, include_timestamps, skip_existing,
                              result)
       IN  /\ filename_counts' = done.filename_counts
           /\ skipped_count' = done.skipped_count
           /\ assigned' = Append(assigned, done.paths)
           /\ result' = done.result
           /\ sink_log' = done.events
           /\ files' = done.files
    /\ file_index' = file_index + 1
    /\ UNCHANGED <<pc, ttml_files>>
    /\ BatchUnused

\* lines 378-379
FinishBatch ==
    /\ pc = "batch" /\ file_index = Len(ttml_files)
    /\ pc' = "finished"
    /\ UNCHANGED <<ttml_files, file_index, filename_counts, skipped_count,
                   assigned, result, files, sink_log>>
    /\ BatchUnused

NextBatch == FindFile \/ StartBatch \/ ProcessFile \/ FinishBatch

SpecBatch == BatchInit /\ [][NextBatch]_vars

Range(f) == {f[i] : i \in DOMAIN f}

\* C10: within one run, no two documents are assigned the same output
\* filename, whether the name came from the titles, from the identifier or
\* from the error fallback.
C10_DistinctFilenames ==
    \A i, j \in 1..Len(assigned) :
        i # j => Range(assigned[i]) \cap Range(assigned[j]) = {}

(***************************************************************************)
(* Timestamps on and off on the same document (specification Spec)         *)
(***************************************************************************)
\* where the first "]" of a line is, or 0
ClosingBracket(line) ==
    IF \E i \in 1..Len(line) : line[i] = "]"
    THEN CHOOSE i \in 1..Len(line) : line[i] = "]" /\ \A j \in 1..(i - 1) : line[j] # "]"
    ELSE 0

\* the line without its leading "[HH:MM:SS] ", if it has one
WithoutPrefix(line) ==
    IF line # <<>> /\ line[1] = "[" /\ ClosingBracket(line) > 0
    THEN SubSeq(line, ClosingBracket(line) + 2, Len(line))
    ELSE line

\* C16: a document extract_transcript succeeds on without timestamps, it
\* succeeds on with timestamps too, whatever its begin values, and the
\* timestamped lines without their prefixes are the untimestamped lines.
C16_TimestampsOnlyAddPrefixes ==
    pc = "done" =>
        LET plain == extract_transcript(ttml_content, TRUE, FALSE)
            stamped == extract_transcript(ttml_content, TRUE, TRUE)
        IN  plain.exc = NoError =>
                /\ stamped.exc = NoError
                /\ [i \in 1..Len(stamped.transcript) |->
                        WithoutPrefix(stamped.transcript[i])] = plain.transcript

(***************************************************************************)
(* The batches that report counts: the custom directory mode of main()     *)
(* and download_show_transcripts (specification SpecCounts)                *)
(***************************************************************************)
TtmlExtension == <<".", "t", "t", "m", "l">>

\* what os.listdir(args.input_dir) can give: two good transcripts, one cut
\* in the middle, one without a div, one whose output the file system
\* refuses, one named by the extension alone, and a file that is no
\* transcript
InputDir ==
    {<<"a">> \o TtmlExtension, <<"b">> \o TtmlExtension, <<"e">> \o TtmlExtension,
     <<"n">> \o TtmlExtension, <<"u">> \o TtmlExtension, TtmlExtension,
     <<"r">> \o TxtExtension}

\* a transcript whose body has no div
NoDivision ==
    <<StartTag("tt", NoAttrs, {"", "podcasts"}), StartTag("body", NoAttrs, {}),
      EndTag("body"), EndTag("tt")>>

\* open(file_info['path']).read() in the input directory
ReadInputFile(filename) ==
    CASE filename = <<"a">> \o TtmlExtension -> OneParagraph("a")
      [] filename = <<"b">> \o TtmlExtension -> OneParagraph("b")
      [] filename = <<"e">> \o TtmlExtension -> Truncated("e")
      [] filename = <<"n">> \o TtmlExtension -> NoDivision
      [] OTHER -> OneParagraph("u")

\* where the last dot of p is, or 0
LastDot(p) ==
    IF \E i \in 1..Len(p) : p[i] = "."
    THEN CHOOSE i \in 1..Len(p) : p[i] = "." /\ \A j \in (i + 1)..Len(p) : p[j] # "."
    ELSE 0

\* os.path.splitext(p)[0] for a name without directories: p up to its last
\* dot, the whole of p when only dots come before that dot
SplitextRoot(p) ==
    IF LastDot(p) > 0 /\ \E j \in 1..(LastDot(p) - 1) : p[j] # "."
    THEN SubSeq(p, 1, LastDot(p) - 1)
    ELSE p

Counters(success, skipped, fail) ==
    [success_count |-> success, skipped_count |-> skipped, fail_count |-> fail]

\* a faulty variant: a failure is not counted
CountedNoFailure(counts, outcome) ==
    CASE outcome = "succeeded" -> [counts EXCEPT !.success_count = @ + 1]
      [] outcome = "skipped" -> [counts EXCEPT !.skipped_count = @ + 1]
      [] OTHER -> counts

\* lines 263, 273 and 280: the counters after one turn of the loop
Counted(counts, outcome) ==
    CASE outcome = "succeeded" -> [counts EXCEPT !.success_count = @ + 1]
      [] outcome = "skipped" -> [counts EXCEPT !.skipped_count = @ + 1]
      [] OTHER -> [counts EXCEPT !.fail_count = @ + 1]

\* lines 253-280: what one turn of the loop does for file_info
ProcessDirOne(file_info, fs, ts, skip, last) ==
    LET output_filename == SplitextRoot(file_info.filename) \o TxtExtension
        r == extract_transcript(ReadInputFile(file_info.filename),
                                Writable(output_filename), ts)
    IN  IF skip /\ PathExists(fs, output_filename)
        THEN [outcome |-> "skipped", path |-> output_filename, result |-> last,
              events |-> <<>>, files |-> fs]
        ELSE [outcome |-> IF r.exc = NoError THEN "succeeded" ELSE "failed",
              path |-> output_filename, result |-> r, events |-> r.events,
              files |-> SinkAfter(fs, output_filename, r.events)]

\* the rows query_all_episodes_for_show can return: two episodes of the
\* same title published the same day, one a day later, one whose title has
\* a character no file name may have
Episode(episode_id, episode_title, pub_date) ==
    [episode_id |-> episode_id, episode_title |-> episode_title, pub_date |-> pub_date]

SecondsPerDay == 86400

Episodes ==
    {Episode(1, <<"T">>, 0), Episode(2, <<"T">>, 600),
     Episode(3, <<"T">>, SecondsPerDay), Episode(4, <<"U", "/">>, 0)}

\* lines 162-163: the day of pub_date, seconds since 2001-01-01, for the
\* days of January 2001 and a clock on UTC
AppleEpochOffset == 978307200

DateStr(pub_date) ==
    LET unix_timestamp == pub_date + AppleEpochOffset
        day == (unix_timestamp \div SecondsPerDay) - (AppleEpochOffset \div SecondsPerDay)
    IN  <<"2", "0", "0", "1", "-", "0", "1", "-">> \o Format02d(day + 1)

\* line 166
EpisodeFilename(episode) ==
    sanitize_filename(DateStr(episode.pub_date) \o <<" ">> \o episode.episode_title
                      \o TtmlExtension)

\* what the servers and the file system make of one call of
\* fetch_transcript: the file saved, a request refused (lines 86 and 109,
\* before the file is opened), the file refused by open (line 100), the
\* download broken off after the file was opened (line 109)
FetchOutcomes == {"saved", "refused", "unwritable", "interrupted"}

\* fetch_transcript(bearer_token, episode_id, output_file): whether it
\* raised, and the output directory after it
fetch_transcript(fs, episode, output_file, outcome) ==
    CASE outcome = "saved" ->
             [raised |-> FALSE,
              files |-> (output_file :> OneParagraph("t")) @@ fs]
      [] outcome = "interrupted" ->
             [raised |-> TRUE,
              files |-> (output_file :> Truncated("t")) @@ fs]
      [] OTHER -> [raised |-> TRUE, files |-> fs]

\* what the output directory holds before the run
CountsDirChoices ==
    {<<>>,
     ((<<"a">> \o TxtExtension) :> OldContent)
         @@ ((<<"2", "0", "0", "1", "-", "0", "1", "-", "0", "1", " ", "T">>
              \o TtmlExtension) :> OldContent)}

CountsInit ==
    /\ pc \in {"listdir", "episodes"}
    /\ ttml_files = <<>>
    /\ file_index = 0
    /\ filename_counts = <<>>
    /\ skipped_count = 0
    /\ skip_existing = TRUE
    /\ assigned = <<>>
    /\ NoCounts
    /\ title = <<>>
    /\ entries = <<>>
    /\ include_timestamps \in BOOLEAN
    /\ files \in CountsDirChoices
    /\ result = Idle
    /\ sink_log = <<>>
    /\ ttml_content = <<>>
    /\ open_tags = <<>>
    /\ node = NoElement
    /\ seconds = 0
    /\ text_out = <<>>

CountsUnused ==
    UNCHANGED <<ttml_content, open_tags, include_timestamps, node, seconds,
                text_out, skip_existing, filename_counts, title, entries>>

\* lines 234-239: os.listdir gives one more name, kept when it ends in
\* .ttml
ListFile ==
    /\ pc = "listdir" /\ Len(ttml_files) < MaxFiles
    /\ \E filename \in InputDir :
          /\ EndsWith(filename, TtmlExtension)
          /\ \A i \in 1..Len(ttml_files) : ttml_files[i].filename # filename
          /\ ttml_files' = Append(ttml_files, [path |-> filename, filename |-> filename])
    /\ UNCHANGED <<pc, file_index, skipped_count, success_count, fail_count,
                   outcomes, assigned, result, files, sink_log>>
    /\ CountsUnused

\* lines 243-250: the list is complete; without files main() exits, else
\* the counters are set up
StartDir ==
    /\ pc = "listdir"
    /\ pc' = IF ttml_files = <<>> THEN "dir_empty" ELSE "dir"
    /\ success_count' = 0
    /\ skipped_count' = 0
    /\ fail_count' = 0
    /\ UNCHANGED <<ttml_files, file_index, outcomes, assigned, result, files, sink_log>>
    /\ CountsUnused

\* one turn of the loop of line 252
ProcessDirFile ==
    /\ pc = "dir" /\ file_index < Len(ttml_files)
    /\ LET done == ProcessDirOne(ttml_files[file_index + 1], files,
                                 include_timestamps, skip_existing, result)
           counts == Counted(Counters(success_count, skipped_count, fail_count),
                             done.outcome)
       IN  /\ success_count' = counts.success_count
           /\ skipped_count' = counts.skipped_count
           /\ fail_count' = counts.fail_count
           /\ outcomes' = Append(outcomes, done.outcome)
           /\ assigned' = Append(assigned, <<done.path>>)
           /\ result' = done.result
           /\ sink_log' = done.events
           /\ files' = done.files
    /\ file_index' = file_index + 1
    /\ UNCHANGED <<pc, ttml_files>>
    /\ CountsUnused

\* lines 282-285
ReportDir ==
    /\ pc = "dir" /\ file_index = Len(ttml_files)
    /\ pc' = "dir_reported"
    /\ UNCHANGED <<ttml_files, file_index, skipped_count, success_count, fail_count,
                   outcomes, assigned, result, files, sink_log>>
    /\ CountsUnused

\* line 142: the query gives one more row
QueryEpisode ==
    /\ pc = "episodes" /\ Len(ttml_files) < MaxFiles
    /\ \E episode \in Episodes :
          /\ \A i \in 1..Len(ttml_files) : ttml_files[i] # episode
          /\ ttml_files' = Append(ttml_files, episode)
    /\ UNCHANGED <<pc, file_index, skipped_count, success_count, fail_count,
                   outcomes, assigned, result, files, sink_log>>
    /\ CountsUnused

\* lines 145-153: without episodes the function returns, else the counters
\* are set up
StartShow ==
    /\ pc = "episodes"
    /\ pc' = IF ttml_files = <<>> THEN "show_empty" ELSE "show"
    /\ success_count' = 0
    /\ fail_count' = 0
    /\ UNCHANGED <<ttml_files, file_index, skipped_count, outcomes, assigned,
                   result, files, sink_log>>
    /\ CountsUnused

\* one turn of the loop of line 155
DownloadEpisode ==
    /\ pc = "show" /\ file_index < Len(ttml_files)
    /\ LET episode == ttml_files[file_index + 1]
           filename == EpisodeFilename(episode)
       IN  /\ assigned' = Append(assigned, <<filename>>)
           /\ IF PathExists(files, filename)
              THEN /\ outcomes' = Append(outcomes, "skipped")
                   /\ UNCHANGED <<success_count, fail_count, files>>
              ELSE \E outcome \in FetchOutcomes :
                      LET fetched == fetch_transcript(files, episode, filename, outcome)
                          counts == Counted(Counters(success_count, 0, fail_count),
                                            IF fetched.raised THEN "failed"
                                            ELSE "succeeded")
                      IN  /\ success_count' = counts.success_count
                          /\ fail_count' = counts.fail_count
                          /\ outcomes' = Append(outcomes, IF fetched.raised THEN "failed"
                                                          ELSE "succeeded")
                          /\ files' = fetched.files
    /\ file_index' = file_index + 1
    /\ UNCHANGED <<pc, ttml_files, skipped_count, result, sink_log>>
    /\ CountsUnused

\* lines 184-187: the skipped are reported as the rest
ReportShow ==
    /\ pc = "show" /\ file_index = Len(ttml_files)
    /\ pc' = "show_reported"
    /\ skipped_count' = Len(ttml_files) - success_count - fail_count
    /\ UNCHANGED <<ttml_files, file_index, success_count, fail_count, outcomes,
                   assigned, result, files, sink_log>>
    /\ CountsUnused

BatchRunning == pc \in {"dir", "show"}

NextCounts ==
    \/ ListFile \/ StartDir \/ ProcessDirFile \/ ReportDir
    \/ QueryEpisode \/ StartShow \/ DownloadEpisode \/ ReportShow

\* a turn of either loop: the next entry is gone through
LoopTurn ==
    /\ BatchRunning /\ file_index < Len(ttml_files)
    /\ file_index' = file_index + 1

\* after the last turn the counts are printed
Report ==
    /\ BatchRunning /\ file_index = Len(ttml_files)
    /\ pc' = IF pc = "dir" THEN "dir_reported" ELSE "show_reported"

\* both batches are sequential loops of one thread, and every call in a
\* turn returns or raises: while entries are left the loop takes its next
\* turn, and after the last one the report is printed
SpecCounts ==
    /\ CountsInit /\ [][NextCounts]_vars
    /\ WF_file_index(LoopTurn) /\ WF_pc(Report)

Tally(kind) == Cardinality({i \in 1..Len(outcomes) : outcomes[i] = kind})

BatchReported == pc \in {"dir_reported", "show_reported"}

\* C11: a batch that has started always comes to its report, whatever
\* failed on the way; at the report every document found has been gone
\* through and counted once, as succeeded, failed or skipped, and the three
\* counts reported add up to the number of documents found.
C11_FailureNeverStopsBatch ==
    /\ [](BatchReported =>
            /\ file_index = Len(ttml_files)
            /\ Len(outcomes) = Len(ttml_files)
            /\ success_count = Tally("succeeded")
            /\ fail_count = Tally("failed")
            /\ skipped_count = Tally("skipped")
            /\ success_count + fail_count + skipped_count = Len(ttml_files))
    /\ (BatchRunning ~> BatchReported)

C11_Witness ==
    /\ pc = "dir_reported"
    /\ skipped_count > 0
    /\ \E i, j \in 1..Len(outcomes) :
          i < j /\ outcomes[i] = "failed" /\ outcomes[j] = "succeeded"

(***************************************************************************)
(* sanitize_filename on titles (specification SpecTitle)                   *)
(***************************************************************************)
MaxTitleTail == 3

\* the characters the titles end in: a letter, a space, a tab, two of the
\* characters no file name may have
TitleChars == {"a", " ", "\t", ":", "?"}

RECURSIVE TitleTailsOfLen(_)
TitleTailsOfLen(n) ==
    IF n = 0 THEN {<<>>}
    ELSE {Append(t, c) : t \in TitleTailsOfLen(n - 1), c \in TitleChars}

TitleTails == UNION {TitleTailsOfLen(n) : n \in 0..MaxTitleTail}

\* n letters
Padding(n) == [i \in 1..n |-> "a"]

\* Show: "Best" Episode?
ExampleTitle ==
    <<"S", "h", "o", "w", ":", " ", "\"", "B", "e", "s", "t", "\"", " ",
      "E", "p", "i", "s", "o", "d", "e", "?">>

\* the titles: short ones, and ones that reach the length limit within
\* their last characters
TitleChoices ==
    {ExampleTitle}
    \cup {Padding(n) \o tail :
            n \in {0} \cup ((MaxFilenameLength - MaxTitleTail)..MaxFilenameLength),
            tail \in TitleTails}

TitleInit ==
    /\ pc = "title"
    /\ title \in TitleChoices
    /\ text_out = <<>>
    /\ ttml_content = <<>>
    /\ open_tags = <<>>
    /\ include_timestamps = FALSE
    /\ result = Idle
    /\ files = <<>>
    /\ sink_log = <<>>
    /\ node = NoElement
    /\ seconds = 0
    /\ ttml_files = <<>>
    /\ file_index = 0
    /\ filename_counts = <<>>
    /\ skipped_count = 0
    /\ skip_existing = FALSE
    /\ assigned = <<>>
    /\ NoCounts
    /\ entries = <<>>

\* sanitize_filename(title)
CallSanitizeFilename ==
    /\ pc = "title"
    /\ text_out' = sanitize_filename(title)
    /\ pc' = "sanitized"
    /\ UNCHANGED <<ttml_content, open_tags, include_timestamps, result, files,
                   sink_log, node, seconds, ttml_files, file_index,
                   filename_counts, skipped_count, skip_existing, assigned,
                   success_count, fail_count, outcomes, title, entries>>

NextTitle == CallSanitizeFilename

SpecTitle == TitleInit /\ [][NextTitle]_vars

\* Show- -Best- Episode-
ExampleFilename ==
    <<"S", "h", "o", "w", "-", " ", "-", "B", "e", "s", "t", "-", " ",
      "E", "p", "i", "s", "o", "d", "e", "-">>

\* C12: the string sanitize_filename returns has none of < > : " / \ | ? *,
\* no whitespace but single spaces between other characters, no whitespace
\* at either end and at most 200 characters; the example title gives
\* Show- -Best- Episode-.
C12_SanitizedFilename ==
    pc = "sanitized" =>
        /\ \A i \in 1..Len(text_out) : text_out[i] \notin InvalidChars
        /\ \A i \in 1..Len(text_out) :
              IsSpace(text_out[i]) =>
                  /\ text_out[i] = " "
                  /\ i < Len(text_out) => ~IsSpace(text_out[i + 1])
        /\ Strip(text_out) = text_out
        /\ Len(text_out) <= MaxFilenameLength
        /\ title = ExampleTitle => text_out = ExampleFilename

(***************************************************************************)
(* find_ttml_files (specification SpecFind)                                *)
(***************************************************************************)
MaxPieces == 3

PodcastContent ==
    <<"P", "o", "d", "c", "a", "s", "t", "C", "o", "n", "t", "e", "n", "t">>

\* how many digits end the first n characters of s
DigitsBefore(s, n) ==
    LET runs == {k \in 0..n : \A j \in (n - k + 1)..n : IsDigit(s[j])}
    IN  CHOOSE k \in runs : \A m \in runs : m <= k

\* a faulty variant: the digits may be missing
StripSuffixWithoutDigits(relative_path) ==
    LET digits_end == Len(relative_path) - Len(TtmlExtension)
        dash == digits_end - DigitsBefore(relative_path, digits_end)
        group_end == dash - 1
    IN  IF /\ EndsWith(relative_path, TtmlExtension)
           /\ dash >= 1
           /\ relative_path[dash] = "-"
           /\ group_end > Len(TtmlExtension)
           /\ EndsWith(SubSeq(relative_path, 1, group_end), TtmlExtension)
        THEN SubSeq(relative_path, 1, group_end)
        ELSE relative_path

\* re.sub(r'(.+\.ttml)-\d+\.ttml$', r'\1', relative_path) for a path without
\* line breaks: the path must end in .ttml, before it come all the digits
\* there are, at least one, before them a dash, before it .ttml, and before
\* that at least one character; what is matched is replaced by group 1, so
\* the path up to the dash stays
StripDuplicateSuffix(relative_path) ==
    LET digits_end == Len(relative_path) - Len(TtmlExtension)
        dash == digits_end - DigitsBefore(relative_path, digits_end)
        group_end == dash - 1
    IN  IF /\ EndsWith(relative_path, TtmlExtension)
           /\ dash < digits_end
           /\ dash >= 1
           /\ relative_path[dash] = "-"
           /\ group_end > Len(TtmlExtension)
           /\ EndsWith(SubSeq(relative_path, 1, group_end), TtmlExtension)
        THEN SubSeq(relative_path, 1, group_end)
        ELSE relative_path

\* where re.search(r'PodcastContent([^/]+)', s) can match
IdMatchesAt(s, i) ==
    /\ i + Len(PodcastContent) <= Len(s)
    /\ SubSeq(s, i, i + Len(PodcastContent) - 1) = PodcastContent
    /\ s[i + Len(PodcastContent)] # "/"

Unknown == <<"u", "n", "k", "n", "o", "w", "n">>

\* lines 146-147: group 1 of the first match, 'unknown' without a match
FileId(s) ==
    IF \E i \in 1..Len(s) : IdMatchesAt(s, i)
    THEN LET at == CHOOSE i \in 1..Len(s) :
                      IdMatchesAt(s, i) /\ \A j \in 1..(i - 1) : ~IdMatchesAt(s, j)
             from == at + Len(PodcastContent)
             slashes == {j \in from..Len(s) : s[j] = "/"}
             upto == IF slashes = {} THEN Len(s)
                     ELSE (CHOOSE j \in slashes : \A m \in slashes : j <= m) - 1
         IN  SubSeq(s, from, upto)
    ELSE Unknown

\* what the names under the directory are made of
Directories ==
    {<<>>, PodcastContent \o <<"7", "/">>, PodcastContent \o <<"/">>,
     <<"O", "t", "h", "e", "r", "/">>}

Stems == {<<>>, <<"e">>, PodcastContent \o <<"9">>}

Pieces ==
    {TtmlExtension, TxtExtension, <<"-">>, <<"-", "5">>, <<"-", "1", "2">>,
     <<"-", "x">>}

RECURSIVE PiecesTimes(_)
PiecesTimes(n) ==
    IF n = 0 THEN {<<>>}
    ELSE {t \o piece : t \in PiecesTimes(n - 1), piece \in Pieces}

\* os.path.relpath(full_path, base_dir) of the files under the directory
RelativePaths ==
    {directory \o stem \o rest :
        directory \in Directories, stem \in Stems,
        rest \in UNION {PiecesTimes(n) : n \in 0..MaxPieces}} \ {<<>>}

FindInit ==
    /\ pc = "walk"
    /\ entries \in {<<relative_path>> : relative_path \in RelativePaths}
    /\ ttml_files = <<>>
    /\ file_index = 0
    /\ title = <<>>
    /\ text_out = <<>>
    /\ ttml_content = <<>>
    /\ open_tags = <<>>
    /\ include_timestamps = FALSE
    /\ result = Idle
    /\ files = <<>>
    /\ sink_log = <<>>
    /\ node = NoElement
    /\ seconds = 0
    /\ filename_counts = <<>>
    /\ skipped_count = 0
    /\ skip_existing = FALSE
    /\ assigned = <<>>
    /\ NoCounts

FindUnused ==
    UNCHANGED <<ttml_content, open_tags, include_timestamps, result, files,
                sink_log, node, seconds, text_out, filename_counts, skipped_count,
                skip_existing, assigned, success_count, fail_count, outcomes,
                title, entries>>

\* lines 137-153: what the list is after the file at relative_path
Found(found, relative_path) ==
    IF ~EndsWith(relative_path, TtmlExtension) THEN found
    ELSE IF ~StartsWith(StripDuplicateSuffix(relative_path), PodcastContent) THEN found
    ELSE Append(found,
                [path |-> relative_path,
                 transcript_identifier |-> StripDuplicateSuffix(relative_path),
                 id |-> FileId(StripDuplicateSuffix(relative_path))])

\* one turn of the loop of line 132, on a file
VisitEntry ==
    /\ pc = "walk" /\ file_index < Len(entries)
    /\ ttml_files' = Found(ttml_files, entries[file_index + 1])
    /\ file_index' = file_index + 1
    /\ UNCHANGED pc
    /\ FindUnused

\* line 157
ReturnFiles ==
    /\ pc = "walk" /\ file_index = Len(entries)
    /\ pc' = "found"
    /\ UNCHANGED <<ttml_files, file_index>>
    /\ FindUnused

NextFind == VisitEntry \/ ReturnFiles

SpecFind == FindInit /\ [][NextFind]_vars

\* relative_path is its first b characters, then .ttml-, digits and .ttml
DuplicateOf(relative_path, b) ==
    LET rest == SubSeq(relative_path, b + 1, Len(relative_path))
        digits == SubSeq(rest, Len(TtmlExtension) + 2,
                         Len(rest) - Len(TtmlExtension))
    IN  /\ b >= 1
        /\ Len(rest) > 2 * Len(TtmlExtension) + 1
        /\ StartsWith(rest, TtmlExtension \o <<"-">>)
        /\ EndsWith(rest, TtmlExtension)
        /\ \A j \in 1..Len(digits) : IsDigit(digits[j])

\* C13: a file found whose relative path is <base>.ttml-<digits>.ttml has
\* the transcript identifier <base>.ttml; a file found whose path is not of
\* that form has its path as identifier.
C13_IdentifierCanonical ==
    pc = "found" =>
        \A i \in 1..Len(ttml_files) :
            LET relative_path == ttml_files[i].path
                bases == {b \in 1..Len(relative_path) : DuplicateOf(relative_path, b)}
            IN  /\ \A b \in bases :
                      ttml_files[i].transcript_identifier
                          = SubSeq(relative_path, 1, b) \o TtmlExtension
                /\ bases = {} => ttml_files[i].transcript_identifier = relative_path

C13_Witness ==
    /\ pc = "found"
    /\ \E i \in 1..Len(ttml_files) :
          /\ ttml_files[i].path = PodcastContent
                 \o <<"7", "/", "e">> \o TtmlExtension \o <<"-", "5">> \o TtmlExtension
          /\ ttml_files[i].transcript_identifier
                 = PodcastContent \o <<"7", "/", "e">> \o TtmlExtension

(***************************************************************************)
(* Skipping what exists (specifications SpecBatch and SpecCounts)          *)
(***************************************************************************)
\* C14: no step of a batch opens for writing or overwrites a file that was
\* in the output directory when the step began: every such file is there
\* afterwards with the content it had.
C14_SkipExistingNeverBypassed ==
    [][\A path \in DOMAIN files :
          path \in DOMAIN files' /\ files'[path] = files[path]]_vars

(***************************************************************************)
(* The default batch run again (specification SpecBatch)                   *)
(***************************************************************************)
\* the state of the loop of line 316 before its first turn, on an output
\* directory fs
BeforeRun(fs) ==
    [filename_counts |-> <<>>, skipped_count |-> 0, files |-> fs, result |-> Idle,
     assigned |-> <<>>, succeeded |-> <<>>, events |-> <<>>]

\* the state of the loop after the turn that did done: a document
\* succeeded when its one call of extract_transcript wrote the file
AfterTurn(run, done) ==
    [filename_counts |-> done.filename_counts,
     skipped_count |-> done.skipped_count,
     files |-> done.files,
     result |-> done.result,
     assigned |-> Append(run.assigned, done.paths),
     succeeded |-> Append(run.succeeded, Len(done.paths) = 1 /\ done.events # <<>>),
     events |-> run.events \o done.events]

RECURSIVE RunFrom(_, _, _, _)
\* the loop of line 316 from its i-th turn on
RunFrom(list, i, ts, run) ==
    IF i > Len(list) THEN run
    ELSE RunFrom(list, i + 1, ts,
                 AfterTurn(run, ProcessOne(list[i], run.filename_counts,
                                           run.skipped_count, run.files, ts, TRUE,
                                           run.result)))

\* a whole run of the default batch mode over list on the output
\* directory fs
RunBatch(list, fs, ts) == RunFrom(list, 1, ts, BeforeRun(fs))

\* the filename lines 324-347 chose for each document
Chosen(paths) == [i \in 1..Len(paths) |-> paths[i][1]]

\* the filenames chosen do not depend on what the output directory holds
NamesIgnoreExistingFiles ==
    \A fs \in OutputDirChoices :
        Chosen(RunBatch(ttml_files, fs, include_timestamps).assigned) = Chosen(assigned)

\* after a run in which every document succeeded, a second run chooses the
\* same filenames, skips every document and writes nothing
RerunIdempotent ==
    \A fs \in OutputDirChoices :
        LET first == RunBatch(ttml_files, fs, include_timestamps)
            again == RunBatch(ttml_files, first.files, include_timestamps)
        IN  (\A i \in 1..Len(first.succeeded) : first.succeeded[i]) =>
                /\ Chosen(again.assigned) = Chosen(first.assigned)
                /\ again.skipped_count = Len(ttml_files)
                /\ again.events = <<>>
                /\ again.files = first.files

\* C15: the filename the default batch mode chooses for a document depends
\* on the list of documents and their metadata only, not on the files the
\* output directory holds; and after a run in which every document
\* succeeded, running the batch again chooses the same filenames, skips
\* every document and writes no file.
C15_FilenamesIndependentOfOutputs ==
    pc = "finished" => NamesIgnoreExistingFiles /\ RerunIdempotent

====
